---------------------------- MODULE Spec2Model ----------------------------
(***************************************************************************)
(* Sudoku engine of sudoku-mind-solver: the constraint checker, the        *)
(* backtracking solver (instant and traced) and the puzzle generator.      *)
(* Rows and columns are numbered 0..8 as in the source; a board is a       *)
(* sequence of nine rows of nine cells, so that cell (row, col) of the      *)
(* source is board[row + 1][col + 1].                                      *)
(***************************************************************************)
EXTENDS Integers, Sequences, FiniteSets, TLC

(***************************************************************************)
(* Board values.  A cell is a number or the JavaScript value null; null is  *)
(* encoded as an integer no digit, and no other cell value of the model,    *)
(* is equal to (null === n is false for every number n).                    *)
(***************************************************************************)
Null == -100

Idx == 0..8

Digits == 1..9

\* createEmptyBoard: a 9x9 array of null
createEmptyBoard == [i \in 1..9 |-> [j \in 1..9 |-> Null]]

\* board[row][col]
Get(board, row, col) == board[row + 1][col + 1]

\* (a variant with the two indices exchanged)
SetCellSwapped(board, row, col, v) == [board EXCEPT ![col + 1][row + 1] = v]

\* board[row][col] = v, in place
SetCell(board, row, col, v) == [board EXCEPT ![row + 1][col + 1] = v]

(***************************************************************************)
(* isValid: the three scans of the source, each returning false at the      *)
(* first cell equal to num.                                                 *)
(***************************************************************************)
\* (a variant whose box scan starts at row % 3, col % 3)
isValidBoxAtOrigin(board, row, col, num) ==
    /\ \A x \in Idx : Get(board, row, x) # num
    /\ \A x \in Idx : Get(board, x, col) # num
    /\ \A i \in 0..2 : \A j \in 0..2 : Get(board, i + (row % 3), j + (col % 3)) # num

\* (a variant without the column scan)
isValidNoColumn(board, row, col, num) ==
    /\ \A x \in Idx : Get(board, row, x) # num
    /\ LET startRow == row - (row % 3)
           startCol == col - (col % 3)
       IN  \A i \in 0..2 : \A j \in 0..2 : Get(board, i + startRow, j + startCol) # num

isValid(board, row, col, num) ==
    /\ \A x \in Idx : Get(board, row, x) # num
    /\ \A x \in Idx : Get(board, x, col) # num
    /\ LET startRow == row - (row % 3)
           startCol == col - (col % 3)
       IN  \A i \in 0..2 : \A j \in 0..2 : Get(board, i + startRow, j + startCol) # num

(***************************************************************************)
(* findEmpty: the first cell in row-major order that is null or 0, as a     *)
(* pair <<row, col>>; <<>> stands for the source's null result.             *)
(***************************************************************************)
\* (a variant that takes a 9 for an empty cell too)
IsEmptyCellOrNine(v) == v = Null \/ v = 0 \/ v = 9

\* board[i][j] === null || board[i][j] === 0
IsEmptyCell(v) == v = Null \/ v = 0

\* cell number k of the row-major scan: row k div 9, column k mod 9
CellAt(board, k) == Get(board, k \div 9, k % 9)

\* the least element of a nonempty set of numbers
Least(S) == CHOOSE k \in S : \A m \in S : k <= m

findEmpty(board) ==
    LET E == {k \in 0..80 : IsEmptyCell(CellAt(board, k))}
    IN  IF E = {} THEN <<>> ELSE LET k == Least(E) IN <<k \div 9, k % 9>>

\* (a variant whose loop ends at 8: num < 9 for num <= 9)
NextValidBelow9(board, row, col, num) ==
    LET V == {n \in num..8 : isValid(board, row, col, n)}
    IN  IF V = {} THEN 10 ELSE Least(V)

\* (a variant that passes over the least valid digit when a greater one is valid)
NextValidSecond(board, row, col, num) ==
    LET V == {n \in num..9 : isValid(board, row, col, n)}
    IN  IF V = {} THEN 10
        ELSE IF V = {Least(V)} THEN Least(V) ELSE Least(V \ {Least(V)})

\* the for loop's next stop: the least digit from num on that isValid accepts,
\* 10 when the loop runs out
NextValid(board, row, col, num) ==
    LET V == {n \in num..9 : isValid(board, row, col, n)}
    IN  IF V = {} THEN 10 ELSE Least(V)

(***************************************************************************)
(* solveSudokuInstant as a function of the board: the result and the board  *)
(* the call leaves.  TryFrom is the for loop from digit num on.             *)
(***************************************************************************)
RECURSIVE solveSudokuInstant(_), InstantTryFrom(_, _, _, _)
InstantTryFrom(board, row, col, from) ==
    LET num == NextValid(board, row, col, from)
    IN  IF num > 9 THEN [ok |-> FALSE, board |-> board]
        ELSE LET r == solveSudokuInstant(SetCell(board, row, col, num))
             IN  IF r.ok THEN r
                 ELSE InstantTryFrom(SetCell(r.board, row, col, Null), row, col, num + 1)

solveSudokuInstant(board) ==
    LET empty == findEmpty(board)
    IN  IF empty = <<>> THEN [ok |-> TRUE, board |-> board]
        ELSE InstantTryFrom(board, empty[1], empty[2], 1)

(***************************************************************************)
(* Math.random.  The code takes whatever numbers the runtime returns, so    *)
(* the numbers are inputs of a run.  A value v in 0..65535 stands for the   *)
(* number v / 65536 of [0, 1).  shuffle takes the values its calls return   *)
(* as an argument and is defined for every sequence of values.  The runs    *)
(* explored take their values from a bounded family of streams, one per     *)
(* element of Seeds, FillSeeds or PageSeeds: StreamNext enumerates a stream *)
(* and stands for no code of the repository (it is not how the runtime      *)
(* computes Math.random), and the streams are a sample of the outcomes of   *)
(* the random choices, not all of them.                                     *)
(***************************************************************************)
StreamNext(v) == (25173 * v + 13849) % 65536

\* the next n values of the stream whose last value was v
RECURSIVE StreamValues(_, _)
StreamValues(v, n) ==
    IF n = 0 THEN <<>>
    ELSE <<StreamNext(v)>> \o StreamValues(StreamNext(v), n - 1)

\* Math.floor(Math.random() * n) for the value v that Math.random returns
RandBelow(v, n) == (v * n) \div 65536

\* [array[i], array[j]] = [array[j], array[i]]
Swap(seq, a, b) == [seq EXCEPT ![a] = seq[b], ![b] = seq[a]]

(***************************************************************************)
(* shuffle (Fisher-Yates): for i from length-1 down to 1, swap element i    *)
(* with element floor(random * (i + 1)).  Sequences are 1-based, so source  *)
(* index i is position i + 1.  values holds what the length-1 calls of      *)
(* Math.random return, in order: the iteration for i makes call length - i. *)
(***************************************************************************)
RECURSIVE ShuffleFrom(_, _, _)
ShuffleFrom(arr, i, values) ==
    IF i <= 0 THEN arr
    ELSE LET j == RandBelow(values[Len(values) + 1 - i], i + 1)
         IN  ShuffleFrom(Swap(arr, i + 1, j + 1), i - 1, values)

shuffle(array, values) == ShuffleFrom(array, Len(array) - 1, values)

\* (a variant that does not look at the last row)
FirstNullInEightRows(board) ==
    LET E == {k \in 0..71 : CellAt(board, k) = Null}
    IN  IF E = {} THEN <<>> ELSE LET k == Least(E) IN <<k \div 9, k % 9>>

\* the first cell that is null (=== null only: fillBoard and countSolutions)
FirstNull(board) ==
    LET E == {k \in 0..80 : CellAt(board, k) = Null}
    IN  IF E = {} THEN <<>> ELSE LET k == Least(E) IN <<k \div 9, k % 9>>

(***************************************************************************)
(* countSolutions: the number the call returns.  Every placement is undone  *)
(* before the call returns, so the board it leaves is the board it got.     *)
(***************************************************************************)
RECURSIVE countSolutions(_, _), CountTryFrom(_, _, _, _, _, _)
CountTryFrom(board, row, col, from, count, limit) ==
    LET num == NextValid(board, row, col, from)
    IN  IF num > 9 THEN count
        ELSE LET c == count + countSolutions(SetCell(board, row, col, num), limit)
             IN  IF c >= limit THEN c
                 ELSE CountTryFrom(board, row, col, num + 1, c, limit)

countSolutions(board, limit) ==
    LET empty == FirstNull(board)
    IN  IF empty = <<>> THEN 1
        ELSE CountTryFrom(board, empty[1], empty[2], 1, 0, limit)

(***************************************************************************)
(* Reference notions the properties are stated with.  They do not use the   *)
(* solver: a completion of a board is a full board of digits that agrees    *)
(* with the board's digits and repeats no digit in a row, column or box.    *)
(***************************************************************************)
Cells == Idx \X Idx

IsDigit(v) == v \in Digits

SameUnit(p, q) ==
    \/ p[1] = q[1]
    \/ p[2] = q[2]
    \/ (p[1] \div 3 = q[1] \div 3 /\ p[2] \div 3 = q[2] \div 3)

PeersOf == [p \in Cells |-> {q \in Cells : q # p /\ SameUnit(p, q)}]

Peers(p) == PeersOf[p]

\* no digit of the board is repeated in a row, a column or a box
NoRepeat(b) ==
    \A p \in Cells : IsDigit(Get(b, p[1], p[2])) =>
        \A q \in Peers(p) : Get(b, q[1], q[2]) # Get(b, p[1], p[2])

IsFull(b) == \A p \in Cells : IsDigit(Get(b, p[1], p[2]))

Agrees(s, b) == \A p \in Cells : IsDigit(Get(b, p[1], p[2])) => Get(s, p[1], p[2]) = Get(b, p[1], p[2])

IsCompletionOf(s, b) == IsFull(s) /\ NoRepeat(s) /\ Agrees(s, b)

\* the digits no peer of p holds
Candidates(b, p) ==
    Digits \ ( {Get(b, p[1], c) : c \in Idx \ {p[2]}}
               \cup {Get(b, r, p[2]) : r \in Idx \ {p[1]}}
               \cup {Get(b, 3 * (p[1] \div 3) + i, 3 * (p[2] \div 3) + j) :
                        i \in (0..2) \ {p[1] % 3}, j \in (0..2) \ {p[2] % 3}} )

NonDigitCells(b) == {p \in Cells : ~IsDigit(Get(b, p[1], p[2]))}

\* the cells of E, each with the number of its candidates on b
Ranked(b, E) == {<<Cardinality(Candidates(b, q)), q>> : q \in E}

\* a cell with the fewest candidates, R the ranked cells
FewestCandidates(R) == (CHOOSE x \in R : \A y \in R : x[1] <= y[1])[2]

\* the completions of a board b whose digits do not repeat, built by
\* splitting on a cell of b with the fewest candidates
RECURSIVE Extensions(_)
Extensions(b) ==
    UNION { IF E = {} THEN {b}
            ELSE UNION { UNION {
                     Extensions(SetCell(b, p[1], p[2], d)) :
                         d \in Candidates(b, p)} :
                     p \in {FewestCandidates(Ranked(b, E))}} :
            E \in {NonDigitCells(b)}}

\* The set of all completions of b: none when the digits of b repeat.
Completions(b) == IF ~NoRepeat(b) THEN {} ELSE Extensions(b)

(***************************************************************************)
(* Input boards of the solver: the solved grid of the bundled example       *)
(* puzzle with at most MaxEdits of the cells EditCells overwritten, each by *)
(* null, by 0 or by the digit 7.                                            *)
(***************************************************************************)
MaxEdits == 4

SolvedBoard ==
    << <<5, 3, 4, 6, 7, 8, 9, 1, 2>>,
       <<6, 7, 2, 1, 9, 5, 3, 4, 8>>,
       <<1, 9, 8, 3, 4, 2, 5, 6, 7>>,
       <<8, 5, 9, 7, 6, 1, 4, 2, 3>>,
       <<4, 2, 6, 8, 5, 3, 7, 9, 1>>,
       <<7, 1, 3, 9, 2, 4, 8, 5, 6>>,
       <<9, 6, 1, 5, 3, 7, 2, 8, 4>>,
       <<2, 8, 7, 4, 1, 9, 6, 3, 5>>,
       <<3, 4, 5, 2, 8, 6, 1, 7, 9>> >>

EditCells == {<<0, 0>>, <<0, 3>>, <<0, 4>>, <<3, 3>>, <<3, 4>>, <<8, 8>>}

EditValues == {Null, 0, 7}

Patch(b, f) ==
    [i \in 1..9 |-> [j \in 1..9 |->
        IF <<i - 1, j - 1>> \in DOMAIN f THEN f[<<i - 1, j - 1>>] ELSE b[i][j]]]

InputBoards ==
    UNION { {Patch(SolvedBoard, f) : f \in [S -> EditValues]} :
            S \in {T \in SUBSET EditCells : Cardinality(T) <= MaxEdits} }

(***************************************************************************)
(* State.  The solver runs as a machine with an explicit call stack: one    *)
(* frame <<row, col, num>> per active call, num the next digit of its loop. *)
(***************************************************************************)
VARIABLES
    mode,          \* "instant" (solveSudokuInstant), "traced" (solveSudoku with
                   \* onStep), "generate" (generateSudoku), "check" (isValid),
                   \* "page" (Index with step mode) or "callbackPage" (the
                   \* older Index, whose handleSolve awaits solveSudoku)
    input,         \* the board as it was passed in
    board,         \* the board the call works on, written in place
    stack,         \* the active calls, outermost first
    pc,            \* where the run stands
    ret,           \* the value the call that ended last returned (a boolean,
                   \* or countSolutions' number)
    steps,         \* the records onStep has received, in order
    difficulty,    \* generateSudoku's argument
    rng,           \* the value Math.random returned last: where the run
                   \* stands in its stream of values
    filled,        \* the board as fillBoard left it
    testBoard,     \* removeNumbers: the copy countSolutions works on
    backup,        \* removeNumbers: the digit of the cell being tried
    cellsToRemove, \* removeNumbers' argument
    shuffledCells, \* removeNumbers: the 81 cells in the order they are tried
    idx,           \* removeNumbers: the position of the for loop in shuffledCells;
                   \* handleSolve: the position of its interval in steps
    removed,       \* removeNumbers: the removal counter
    fixedCells,       \* Index: the cells marked as clues
    isSolving,        \* Index: an animated solve is running
    solvingCell,      \* Index: the cell shown as being solved, <<>> for null
    solvingSteps,     \* Index: the trace that step mode walks through
    currentStepIndex, \* Index: the step counter of step mode
    isStepMode,       \* Index: step mode is on
    interval,         \* handleSolve: its setInterval timer is running
    isProcessing,     \* ImageUpload: an extraction is running
    boardCopy,        \* the older Index: the copy handleSolve hands to solveSudoku
    generated         \* what generateSudoku returns, by difficulty and stream
                      \* of Math.random's values: computed once, when the
                      \* page is shown

solverVars == <<mode, input, board, stack, pc, ret, steps>>

genVars == <<difficulty, rng, filled, testBoard, backup, cellsToRemove,
             shuffledCells, idx, removed>>

uiVars == <<fixedCells, isSolving, solvingCell, solvingSteps, currentStepIndex,
            isStepMode, interval, isProcessing, boardCopy, generated>>

vars == <<mode, input, board, stack, pc, ret, steps,
          difficulty, rng, filled, testBoard, backup, cellsToRemove,
          shuffledCells, idx, removed,
          fixedCells, isSolving, solvingCell, solvingSteps, currentStepIndex,
          isStepMode, interval, isProcessing, boardCopy, generated>>

\* the page's variables while no page is shown
NoUI ==
    /\ fixedCells = {}
    /\ isSolving = FALSE
    /\ solvingCell = <<>>
    /\ solvingSteps = <<>>
    /\ currentStepIndex = 0
    /\ isStepMode = FALSE
    /\ interval = FALSE
    /\ isProcessing = FALSE
    /\ boardCopy = <<>>
    /\ generated = {}

\* the generator's variables while no generator runs
NoGenerator ==
    /\ difficulty = "none"
    /\ rng = 0
    /\ filled = <<>>
    /\ testBoard = <<>>
    /\ backup = Null
    /\ cellsToRemove = 0
    /\ shuffledCells = <<>>
    /\ idx = 0
    /\ removed = 0

Top == stack[Len(stack)]

Pop(st) == SubSeq(st, 1, Len(st) - 1)

SetTopNum(st, n) == [st EXCEPT ![Len(st)].num = n]

\* (a variant that reports the cell with row and column exchanged)
onStepTransposed(recs, old, new, row, col) ==
    Append(recs, [board |-> new, row |-> col, col |-> row])

\* (a variant that hands over the board as it was before the write)
onStepBeforeWrite(recs, old, new, row, col) ==
    Append(recs, [board |-> old, row |-> row, col |-> col])

\* onStep([...board.map(r => [...r])], row, col): a copy of the board
onStep(recs, old, new, row, col) ==
    Append(recs, [board |-> new, row |-> row, col |-> col])

Record(old, new, row, col) ==
    IF mode = "traced" THEN onStep(steps, old, new, row, col) ELSE steps

SolveInit ==
    /\ mode \in {"instant", "traced"}
    /\ input \in InputBoards
    /\ board = input
    /\ stack = <<>>
    /\ pc = "call"
    /\ ret = FALSE
    /\ steps = <<>>
    /\ NoGenerator
    /\ NoUI

\* entry of a call: findEmpty, and return true when the board is complete
SolveCall ==
    /\ pc = "call"
    /\ LET empty == findEmpty(board)
       IN  IF empty = <<>>
           THEN /\ ret' = TRUE
                /\ pc' = "ret"
                /\ UNCHANGED stack
           ELSE /\ stack' = Append(stack, [row |-> empty[1], col |-> empty[2], num |-> 1])
                /\ pc' = "try"
                /\ UNCHANGED ret
    /\ UNCHANGED <<mode, input, board, steps>>
    /\ UNCHANGED genVars
    /\ UNCHANGED uiVars

\* the for loop up to its next placement, or to its end (return false)
SolveTry ==
    /\ pc = "try"
    /\ LET f   == Top
           num == NextValid(board, f.row, f.col, f.num)
       IN  IF num > 9
           THEN /\ stack' = Pop(stack)
                /\ ret' = FALSE
                /\ pc' = "ret"
                /\ UNCHANGED <<board, steps>>
           ELSE /\ board' = SetCell(board, f.row, f.col, num)
                /\ steps' = Record(board, board', f.row, f.col)
                /\ stack' = SetTopNum(stack, num)
                /\ pc' = "call"
                /\ UNCHANGED ret
    /\ UNCHANGED <<mode, input>>
    /\ UNCHANGED genVars
    /\ UNCHANGED uiVars

\* a call has returned: to the caller's loop, or out of the outermost call
SolveReturn ==
    /\ pc = "ret"
    /\ IF stack = <<>>
       THEN /\ pc' = "done"
            /\ UNCHANGED <<board, stack, steps>>
       ELSE IF ret
       THEN /\ stack' = Pop(stack)
            /\ pc' = "ret"
            /\ UNCHANGED <<board, steps>>
       ELSE /\ board' = SetCell(board, Top.row, Top.col, Null)
            /\ steps' = Record(board, board', Top.row, Top.col)
            /\ stack' = SetTopNum(stack, Top.num + 1)
            /\ pc' = "try"
    /\ UNCHANGED <<mode, input, ret>>
    /\ UNCHANGED genVars
    /\ UNCHANGED uiVars

SolveNext == SolveCall \/ SolveTry \/ SolveReturn

Spec == SolveInit /\ [][SolveNext]_vars

(***************************************************************************)
(* The generator.  generateSudoku(difficulty): fillBoard on an empty board, *)
(* then removeNumbers.  fillBoard runs as a machine like the solver's, its  *)
(* frames holding the shuffled digits and the position k in them;           *)
(* removeNumbers' loop runs countSolutions on the test board one placement  *)
(* per step.  The values Math.random returns are an input of the run: a     *)
(* run takes them from one of NSeeds streams, so the runs explored are      *)
(* NSeeds outcomes of the random choices for each difficulty.               *)
(***************************************************************************)
NSeeds == 3

\* where the streams of values start
SeedList == <<1143, 278, 1316, 778>>

Seeds == {SeedList[i] : i \in 1..NSeeds}

Difficulties == {"easy", "medium", "hard"}

\* countSolutions' default limit
DefaultLimit == 2

\* generateSudoku's table of cells to remove
CellsToRemoveOf(d) ==
    CASE d = "easy" -> 40
      [] d = "medium" -> 50
      [] d = "hard" -> 57

\* Array.from({length: 81}, (_, i) => [Math.floor(i / 9), i % 9])
AllCells == [i \in 1..81 |-> <<(i - 1) \div 9, (i - 1) % 9>>]

\* the position from k on of the next digit of numbers that isValid accepts,
\* Len(numbers) + 1 when the loop runs out
NextValidAt(b, row, col, numbers, k) ==
    LET V == {n \in k..Len(numbers) : isValid(b, row, col, numbers[n])}
    IN  IF V = {} THEN Len(numbers) + 1 ELSE Least(V)

\* (a variant that breaks one iteration late)
BreakLoopLate(r, target) == r > target

\* removeNumbers: if (removed >= cellsToRemove) break
BreakLoop(r, target) == r >= target

\* (a variant that keeps a cell cleared whenever a solution is left)
KeepsClearedIfSolvable(count) == count # 0

\* (a variant that never puts the digit back)
KeepsClearedAlways(count) == TRUE

\* removeNumbers: the cell stays cleared unless countSolutions(testBoard) !== 1
KeepsCleared(count) == count = 1

GenInit ==
    /\ mode = "generate"
    /\ difficulty \in Difficulties
    /\ rng \in Seeds
    /\ input = createEmptyBoard
    /\ board = createEmptyBoard
    /\ stack = <<>>
    /\ pc = "fillCall"
    /\ ret = FALSE
    /\ steps = <<>>
    /\ filled = <<>>
    /\ testBoard = <<>>
    /\ backup = Null
    /\ cellsToRemove = 0
    /\ shuffledCells = <<>>
    /\ idx = 0
    /\ removed = 0
    /\ NoUI

\* entry of fillBoard: the first null cell and a shuffled digit order
FillCall ==
    /\ pc = "fillCall"
    /\ LET empty == FirstNull(board)
       IN  IF empty = <<>>
           THEN /\ ret' = TRUE
                /\ pc' = "fillRet"
                /\ UNCHANGED <<stack, rng>>
           ELSE \E values \in {StreamValues(rng, 8)} :
                    /\ stack' = Append(stack, [row |-> empty[1], col |-> empty[2],
                                               numbers |-> shuffle(<<1, 2, 3, 4, 5, 6, 7, 8, 9>>, values),
                                               k |-> 1])
                    /\ rng' = values[8]
                    /\ pc' = "fillTry"
                    /\ UNCHANGED ret
    /\ UNCHANGED <<mode, input, board, steps, difficulty, filled, testBoard,
                   backup, cellsToRemove, shuffledCells, idx, removed>>
    /\ UNCHANGED uiVars

\* fillBoard's for loop up to its next placement, or to its end
FillTry ==
    /\ pc = "fillTry"
    /\ LET f == Top
           k == NextValidAt(board, f.row, f.col, f.numbers, f.k)
       IN  IF k > Len(f.numbers)
           THEN /\ stack' = Pop(stack)
                /\ ret' = FALSE
                /\ pc' = "fillRet"
                /\ UNCHANGED board
           ELSE /\ board' = SetCell(board, f.row, f.col, f.numbers[k])
                /\ stack' = [stack EXCEPT ![Len(stack)].k = k]
                /\ pc' = "fillCall"
                /\ UNCHANGED ret
    /\ UNCHANGED <<mode, input, steps>>
    /\ UNCHANGED genVars
    /\ UNCHANGED uiVars

\* a fillBoard call has returned to its caller's loop
FillReturn ==
    /\ pc = "fillRet"
    /\ stack # <<>>
    /\ IF ret
       THEN /\ stack' = Pop(stack)
            /\ pc' = "fillRet"
            /\ UNCHANGED board
       ELSE /\ board' = SetCell(board, Top.row, Top.col, Null)
            /\ stack' = [stack EXCEPT ![Len(stack)].k = Top.k + 1]
            /\ pc' = "fillTry"
    /\ UNCHANGED <<mode, input, ret, steps>>
    /\ UNCHANGED genVars
    /\ UNCHANGED uiVars

\* generateSudoku after fillBoard (its result is not looked at), and the
\* start of removeNumbers: removed = 0, the 81 cells in row-major order, and
\* shuffle's loop variable i (held in idx) at length - 1
StartRemove ==
    /\ pc = "fillRet"
    /\ stack = <<>>
    /\ filled' = board
    /\ cellsToRemove' = CellsToRemoveOf(difficulty)
    /\ removed' = 0
    /\ shuffledCells' = AllCells
    /\ idx' = Len(AllCells) - 1
    /\ pc' = "shuffle"
    /\ UNCHANGED <<mode, input, board, stack, ret, steps, difficulty, rng,
                   testBoard, backup>>
    /\ UNCHANGED uiVars

\* one iteration of shuffle's loop on the 81 cells: swap i and floor(random * (i + 1))
ShuffleStep ==
    /\ pc = "shuffle"
    /\ idx > 0
    /\ LET s1 == StreamNext(rng)
           j  == RandBelow(s1, idx + 1)
       IN  /\ shuffledCells' = Swap(shuffledCells, idx + 1, j + 1)
           /\ rng' = s1
    /\ idx' = idx - 1
    /\ UNCHANGED <<mode, input, board, stack, pc, ret, steps, difficulty, filled,
                   testBoard, backup, cellsToRemove, removed>>
    /\ UNCHANGED uiVars

\* shuffle returns, and removeNumbers' for loop starts at the first cell
ShuffleEnd ==
    /\ pc = "shuffle"
    /\ idx <= 0
    /\ idx' = 1
    /\ pc' = "dig"
    /\ UNCHANGED <<mode, input, board, stack, ret, steps, difficulty, rng, filled,
                   testBoard, backup, cellsToRemove, shuffledCells, removed>>
    /\ UNCHANGED uiVars

\* removeNumbers' loop, up to the call of countSolutions: save the cell's
\* digit, clear the cell and copy the board for the test
RemoveStep ==
    /\ pc = "dig"
    /\ idx <= Len(shuffledCells)
    /\ ~BreakLoop(removed, cellsToRemove)
    /\ LET row == shuffledCells[idx][1]
           col == shuffledCells[idx][2]
       IN  /\ backup' = Get(board, row, col)
           /\ board' = SetCell(board, row, col, Null)
    /\ testBoard' = board'
    /\ pc' = "count"
    /\ UNCHANGED <<mode, input, stack, ret, steps, difficulty, rng, filled,
                   cellsToRemove, shuffledCells, idx, removed>>
    /\ UNCHANGED uiVars

\* countSolutions' for loop in the frame on top of the stack, from its
\* current num: the next placement, or the return of count at the loop's end
\* a recursive call (or the loop's end) has returned r to the frame on top
\* of the stack: count += r, the cell is cleared, and count is returned once
\* it has reached the limit; with no frame left, r is countSolutions' result
RECURSIVE CountLoop(_, _), CountUnwind(_, _, _)
CountLoop(b, st) ==
    LET f   == st[Len(st)]
        num == NextValid(b, f.row, f.col, f.num)
    IN  IF num > 9
        THEN CountUnwind(b, Pop(st), f.count)
        ELSE [board |-> SetCell(b, f.row, f.col, num),
              stack |-> SetTopNum(st, num), ret |-> 0, returned |-> FALSE]

CountUnwind(b, st, r) ==
    IF st = <<>>
    THEN [board |-> b, stack |-> st, ret |-> r, returned |-> TRUE]
    ELSE LET f  == st[Len(st)]
             c  == f.count + r
             b2 == SetCell(b, f.row, f.col, Null)
         IN  IF c >= DefaultLimit
             THEN CountUnwind(b2, Pop(st), c)
             ELSE CountLoop(b2, [st EXCEPT ![Len(st)].count = c,
                                           ![Len(st)].num = f.num + 1])

\* one entry of countSolutions on the test board, run up to the next
\* placement (where the next recursive call enters) or to the return of the
\* outermost call: a board with no null cell returns 1, otherwise the loop
\* starts at the first null cell with count = 0
CountStep ==
    /\ pc = "count"
    /\ LET empty == FirstNull(testBoard)
       IN  \E r \in {IF empty = <<>>
                     THEN CountUnwind(testBoard, stack, 1)
                     ELSE CountLoop(testBoard,
                                    Append(stack, [row |-> empty[1], col |-> empty[2],
                                                   num |-> 1, count |-> 0]))} :
               /\ testBoard' = r.board
               /\ stack' = r.stack
               /\ ret' = r.ret
               /\ pc' = IF r.returned THEN "countRet" ELSE "count"
    /\ UNCHANGED <<mode, input, board, steps, difficulty, rng, filled, backup,
                   cellsToRemove, shuffledCells, idx, removed>>
    /\ UNCHANGED uiVars

\* (a variant that writes the saved digit to the transposed cell)
PutBackTransposed(b, row, col, digit) == SetCell(b, col, row, digit)

\* board[row][col] = backup
PutBack(b, row, col, digit) == SetCell(b, row, col, digit)

\* countSolutions(testBoard) has returned to removeNumbers: put the digit
\* back unless the count is 1, else count the cell as removed
RemoveDecide ==
    /\ pc = "countRet"
    /\ stack = <<>>
    /\ LET row == shuffledCells[idx][1]
           col == shuffledCells[idx][2]
       IN  IF KeepsCleared(ret)
           THEN /\ removed' = removed + 1
                /\ UNCHANGED board
           ELSE /\ board' = PutBack(board, row, col, backup)
                /\ UNCHANGED removed
    /\ idx' = idx + 1
    /\ pc' = "dig"
    /\ UNCHANGED <<mode, input, stack, ret, steps, difficulty, rng, filled,
                   testBoard, backup, cellsToRemove, shuffledCells>>
    /\ UNCHANGED uiVars

\* the loop ends (break, or no cell left) and generateSudoku returns board
RemoveEnd ==
    /\ pc = "dig"
    /\ (idx > Len(shuffledCells) \/ BreakLoop(removed, cellsToRemove))
    /\ pc' = "done"
    /\ UNCHANGED <<mode, input, board, stack, ret, steps>>
    /\ UNCHANGED genVars
    /\ UNCHANGED uiVars

GenNext ==
    \/ FillCall \/ FillTry \/ FillReturn
    \/ StartRemove \/ ShuffleStep \/ ShuffleEnd
    \/ RemoveStep \/ CountStep \/ RemoveDecide
    \/ RemoveEnd

GenSpec == GenInit /\ [][GenNext]_vars

\* the number of cells of b that are not null
ClueCount(b) == Cardinality({p \in Cells : Get(b, p[1], p[2]) # Null})


(***************************************************************************)
(* isValid applied on its own.  The boards are the empty board with at most *)
(* MaxPlaced of the cells ProbeCells set to a value of ProbeValues; the     *)
(* call is made for any cell and for the digits ProbeDigits.                *)
(***************************************************************************)
MaxPlaced == 2

ProbeCells == {<<0, 0>>, <<1, 4>>, <<4, 4>>, <<5, 3>>, <<4, 8>>, <<8, 7>>}

ProbeValues == {0, 5, 9}

ProbeDigits == {5, 9}

ProbeBoards ==
    UNION { {Patch(createEmptyBoard, f) : f \in [S -> ProbeValues]} :
            S \in {T \in SUBSET ProbeCells : Cardinality(T) <= MaxPlaced} }

CheckInit ==
    /\ mode = "check"
    /\ input \in ProbeBoards
    /\ board = input
    /\ stack = <<>>
    /\ pc = "idle"
    /\ ret = FALSE
    /\ steps = <<>>
    /\ NoGenerator
    /\ NoUI

\* a call isValid(board, row, col, num); the function assigns to nothing
CallIsValid ==
    /\ pc = "idle"
    /\ \E row \in Idx, col \in Idx, num \in ProbeDigits :
          /\ stack' = <<[row |-> row, col |-> col, num |-> num]>>
          /\ ret' = isValid(board, row, col, num)
    /\ pc' = "checked"
    /\ UNCHANGED <<mode, input, board, steps>>
    /\ UNCHANGED genVars
    /\ UNCHANGED uiVars

CheckNext == CallIsValid

CheckSpec == CheckInit /\ [][CheckNext]_vars


(***************************************************************************)
(* getSolvingSteps, the traced solver's entry point: the records of the     *)
(* search when it succeeded, the empty sequence when the board has no       *)
(* solution.  Read when the outermost call has returned.                    *)
(***************************************************************************)
getSolvingSteps == IF ret THEN steps ELSE <<>>

\* handleSolve and handleStepByStep: an empty sequence is shown as "No Solution"
NoSolutionReported == Len(getSolvingSteps) = 0

\* the state reached by applying the returned records, in order, to the input
FinalSnapshot ==
    IF getSolvingSteps = <<>> THEN input
    ELSE getSolvingSteps[Len(getSolvingSteps)].board

InstantDone == pc = "done" /\ mode = "instant"

TracedDone == pc = "done" /\ mode = "traced"

\* the machine and the function solveSudokuInstant describe the same call
MachineMatchesFunction ==
    InstantDone => /\ ret = solveSudokuInstant(input).ok
                   /\ board = solveSudokuInstant(input).board

(***************************************************************************)
(* Properties of the solver                                                 *)
(***************************************************************************)

\* C1: on a board whose clues repeat no digit in a row, column or box,
\* solveSudokuInstant returns true exactly when the board has a completion,
\* and then the board has no empty cell left and is a completion of the input.
C1_SolvesExactlyTheSolvable ==
    (InstantDone /\ NoRepeat(input)) =>
        /\ ret <=> (Completions(input) # {})
        /\ ret => /\ findEmpty(board) = <<>>
                  /\ IsCompletionOf(board, input)

\* C1 witness: a board with consistent clues and no completion, which the
\* search gave up on after writing to it (a 0 it tried is left as null)
C1_Witness ==
    /\ InstantDone /\ NoRepeat(input) /\ ~ret
    /\ board # input

\* C2 (as claimed): whenever solveSudokuInstant returns true, whatever the
\* clues, every filled cell of the result passes isValid against the rest of
\* the board, the cell itself taken as empty.
C2_ResultHasNoConflict ==
    (InstantDone /\ ret) =>
        \A p \in Cells : IsDigit(Get(board, p[1], p[2])) =>
            isValid(SetCell(board, p[1], p[2], Null), p[1], p[2], Get(board, p[1], p[2]))

\* C3 (as claimed): whenever solveSudokuInstant returns false, the board is
\* cell for cell the board that was passed in (empty cells given as null or 0).
C3_FailureRestoresInput ==
    (InstantDone /\ ~ret) => board = input

\* C4: no cell that holds a digit in the input is ever written: in every
\* state of either search, in every record's snapshot and in the final
\* board, each clue cell holds its input digit.
C4_CluesNeverWritten ==
    \A p \in Cells : IsDigit(Get(input, p[1], p[2])) =>
        /\ Get(board, p[1], p[2]) = Get(input, p[1], p[2])
        /\ \A k \in 1..Len(steps) : Get(steps[k].board, p[1], p[2]) = Get(input, p[1], p[2])

\* C4 witness: a traced search that has placed and removed digits and ended
C4_Witness ==
    /\ TracedDone
    /\ \E k \in 1..Len(steps) : Get(steps[k].board, steps[k].row, steps[k].col) = Null
    /\ \E p \in Cells : IsDigit(Get(input, p[1], p[2]))

\* C5 (as claimed): for every board, the final snapshot of the sequence the
\* traced solver returns (the input with the records applied in order) is
\* the board solveSudokuInstant leaves on the same input.
C5_TraceEndsWhereInstantEnds ==
    TracedDone => FinalSnapshot = solveSudokuInstant(input).board

\* C6 (as claimed): the traced solver returns the empty sequence exactly when
\* the board has no solution, so whenever the caller reports "No Solution",
\* solveSudokuInstant on the same board returns false.
C6_EmptyTraceMeansUnsolvable ==
    TracedDone => (NoSolutionReported <=> ~solveSudokuInstant(input).ok)

(***************************************************************************)
(* Properties of the generator                                              *)
(***************************************************************************)
GenDone == mode = "generate" /\ pc = "done"

\* the count the machine hands to removeNumbers is the number the function
\* countSolutions gives for the test board, and the test board is restored
CountMatchesFunction ==
    (mode = "generate" /\ pc = "countRet" /\ stack = <<>> /\ removed <= 30) =>
        /\ ret = countSolutions(testBoard, DefaultLimit)
        /\ testBoard = board

\* C7: for every difficulty and every outcome of the random choices, the
\* board generateSudoku returns has exactly one completion.
C7_GeneratedPuzzleIsUnique ==
    GenDone => Cardinality(Completions(board)) = 1

\* C7 witness: a returned puzzle for which the uniqueness check refused at
\* least one removal (a tried cell got its digit back) and allowed others
C7_Witness ==
    /\ GenDone
    /\ removed > 0
    /\ idx - 1 > removed

\* C8: the removal counter never exceeds the difficulty's target (40, 50,
\* 57) at any point of the dig loop, and the returned board has at least
\* 81 - target clues (41, 31, 24).
C8_NeverRemovesMoreThanTarget ==
    (mode = "generate" /\ pc \in {"dig", "count", "countRet", "done"}) =>
        /\ removed <= CellsToRemoveOf(difficulty)
        /\ cellsToRemove = CellsToRemoveOf(difficulty)
        /\ pc \in {"dig", "done"} => ClueCount(board) = 81 - removed
        /\ pc = "done" =>
              /\ ClueCount(board) >= 81 - CellsToRemoveOf(difficulty)
              /\ difficulty = "easy" => ClueCount(board) >= 41
              /\ difficulty = "medium" => ClueCount(board) >= 31
              /\ difficulty = "hard" => ClueCount(board) >= 24

\* C8 witness: a puzzle returned with the target reached (the loop left by
\* its break with cells still untried), after some cells had been put back
C8_Witness ==
    /\ GenDone
    /\ removed = CellsToRemoveOf(difficulty)
    /\ idx <= Len(shuffledCells)
    /\ idx - 1 > removed

(***************************************************************************)
(* Properties of isValid                                                    *)
(***************************************************************************)

\* the cells of the 3x3 box whose origin is (row - row mod 3, col - col mod 3)
BoxCells(row, col) ==
    {p \in Cells : /\ p[1] - (row - (row % 3)) \in 0..2
                   /\ p[2] - (col - (col % 3)) \in 0..2}

AppearsInUnits(b, row, col, digit) ==
    \/ \E c \in Idx : Get(b, row, c) = digit
    \/ \E r \in Idx : Get(b, r, col) = digit
    \/ \E p \in BoxCells(row, col) : Get(b, p[1], p[2]) = digit

\* C9: isValid(board, row, col, digit) is false exactly when digit appears in
\* a cell of the row, of the column or of the 3x3 box with origin
\* (row - row mod 3, col - col mod 3), true otherwise; the board is unchanged.
C9_IsValidIsTheUnitScan ==
    (mode = "check" /\ pc = "checked") =>
        /\ ret = ~AppearsInUnits(input, Top.row, Top.col, Top.num)
        /\ board = input

\* C9 witness: a call answered false for a digit that is neither in the row
\* nor in the column of the cell, only elsewhere in its box
C9_Witness ==
    /\ mode = "check" /\ pc = "checked"
    /\ ~ret
    /\ \A c \in Idx : Get(input, Top.row, c) # Top.num
    /\ \A r \in Idx : Get(input, r, Top.col) # Top.num


(***************************************************************************)
(* validateBoard: the errors of a board, in the order they are pushed.      *)
(* An error is {row, col, type, message}; the message `Duplicate ${value}   *)
(* in <scope>` is the tuple of its three parts.                             *)
(***************************************************************************)
\* (a variant that skips null cells only)
SkipsNullOnly(v) == v = Null

\* if (value === null || value === 0) continue
SkipsCell(v) == v = Null \/ v = 0

\* (a variant that scans the top-left box whatever the cell)
BoxOriginZero(x) == 0

\* Math.floor(row / 3) * 3
BoxOrigin(x) == (x \div 3) * 3

ValidationError(row, col, type, value, scope) ==
    [row |-> row, col |-> col, type |-> type,
     message |-> <<"Duplicate", value, scope>>]

\* (a variant of the row scan that does not leave out the cell itself)
RowErrorCountingSelf(b, row, col, value) ==
    IF \E c \in Idx : Get(b, row, c) = value
    THEN <<ValidationError(row, col, "row", value, "in row")>>
    ELSE <<>>

\* the row scan: one error at the first duplicate, then break
RowError(b, row, col, value) ==
    IF \E c \in Idx : c # col /\ Get(b, row, c) = value
    THEN <<ValidationError(row, col, "row", value, "in row")>>
    ELSE <<>>

\* (a variant whose column scan starts below the cell)
ColumnErrorBelowOnly(b, row, col, value) ==
    IF \E r \in Idx : r > row /\ Get(b, r, col) = value
    THEN <<ValidationError(row, col, "column", value, "in column")>>
    ELSE <<>>

\* the column scan: one error at the first duplicate, then break
ColumnError(b, row, col, value) ==
    IF \E r \in Idx : r # row /\ Get(b, r, col) = value
    THEN <<ValidationError(row, col, "column", value, "in column")>>
    ELSE <<>>

\* the inner loop of the box scan, for one row r of the box: one error at
\* the first duplicate in that row of the box; the break leaves this loop only
BoxRowError(b, row, col, value, r) ==
    IF \E c \in BoxOrigin(col)..(BoxOrigin(col) + 2) :
           (r # row \/ c # col) /\ Get(b, r, c) = value
    THEN <<ValidationError(row, col, "box", value, "in 3x3 box")>>
    ELSE <<>>

\* the box scan: the inner loop once for each of the three rows of the box
BoxErrors(b, row, col, value) ==
    BoxRowError(b, row, col, value, BoxOrigin(row))
        \o BoxRowError(b, row, col, value, BoxOrigin(row) + 1)
        \o BoxRowError(b, row, col, value, BoxOrigin(row) + 2)

\* the body of the two outer loops for one cell
CellErrors(b, row, col) ==
    LET value == Get(b, row, col)
    IN  IF SkipsCell(value) THEN <<>>
        ELSE RowError(b, row, col, value) \o ColumnError(b, row, col, value)
                 \o BoxErrors(b, row, col, value)

\* the inner loop over col for one row
ErrorsOfRow(b, row) ==
    CellErrors(b, row, 0) \o CellErrors(b, row, 1) \o CellErrors(b, row, 2)
        \o CellErrors(b, row, 3) \o CellErrors(b, row, 4) \o CellErrors(b, row, 5)
        \o CellErrors(b, row, 6) \o CellErrors(b, row, 7) \o CellErrors(b, row, 8)

validateBoard(b) ==
    ErrorsOfRow(b, 0) \o ErrorsOfRow(b, 1) \o ErrorsOfRow(b, 2)
        \o ErrorsOfRow(b, 3) \o ErrorsOfRow(b, 4) \o ErrorsOfRow(b, 5)
        \o ErrorsOfRow(b, 6) \o ErrorsOfRow(b, 7) \o ErrorsOfRow(b, 8)

(***************************************************************************)
(* Boards validateBoard is called on: the empty board with one digit in two *)
(* cells of a row; complete valid boards (the solved grid with its digits   *)
(* relabelled, its bands and the rows of each band rotated, transposed);    *)
(* the empty board with at most MaxMarks of the cells MarkCells set to 0, 5 *)
(* or 9; and the solver's input boards.                                     *)
(***************************************************************************)
RowPairBoards ==
    { [i \in 1..9 |-> [j \in 1..9 |->
          IF i - 1 = t[1] /\ j - 1 \in {t[2], t[3]} THEN t[4] ELSE Null]] :
      t \in {u \in Idx \X Idx \X Idx \X Digits : u[2] < u[3]} }

Relabelled(b, k) == [i \in 1..9 |-> [j \in 1..9 |-> ((b[i][j] - 1 + k) % 9) + 1]]

RowsMoved(b, band, within) ==
    [i \in 1..9 |->
        b[ (((((i - 1) \div 3) + band) % 3) * 3) + ((((i - 1) % 3) + within) % 3) + 1 ]]

Transposed(b) == [i \in 1..9 |-> [j \in 1..9 |-> b[j][i]]]

SolvedBoards ==
    LET A == {Relabelled(RowsMoved(SolvedBoard, t[1], t[2]), t[3]) :
                 t \in (0..2) \X (0..2) \X (0..8)}
    IN  A \cup {Transposed(b) : b \in A}

MaxMarks == 3

MarkCells == {<<3, 5>>, <<4, 4>>, <<5, 3>>, <<3, 3>>, <<4, 0>>, <<0, 4>>, <<8, 8>>}

MarkValues == {0, 5, 9}

MarkedBoards ==
    UNION { {Patch(createEmptyBoard, f) : f \in [S -> MarkValues]} :
            S \in {T \in SUBSET MarkCells : Cardinality(T) <= MaxMarks} }

ValidateBoards == RowPairBoards \cup SolvedBoards \cup MarkedBoards \cup InputBoards

ValidateInit ==
    /\ mode = "validate"
    /\ input \in ValidateBoards
    /\ board = input
    /\ stack = <<>>
    /\ pc = "idle"
    /\ ret = <<>>
    /\ steps = <<>>
    /\ NoGenerator
    /\ NoUI

\* one call validateBoard(board); ret is the list it returns
CallValidateBoard ==
    /\ pc = "idle"
    /\ mode = "validate"
    /\ ret' = validateBoard(board)
    /\ pc' = "validated"
    /\ UNCHANGED <<mode, input, board, stack, steps>>
    /\ UNCHANGED genVars
    /\ UNCHANGED uiVars

ValidateNext == CallValidateBoard

ValidateSpec == ValidateInit /\ [][ValidateNext]_vars

Validated == mode = "validate" /\ pc = "validated"

(***************************************************************************)
(* Properties of validateBoard                                              *)
(***************************************************************************)
\* the positions in errs of the errors of one type that name cell p
ErrorsAt(errs, p, type) ==
    {k \in 1..Len(errs) : errs[k].row = p[1] /\ errs[k].col = p[2] /\ errs[k].type = type}

FilledCells(b) == {p \in Cells : ~IsEmptyCell(Get(b, p[1], p[2]))}

ScopeTypes == {"row", "column", "box"}

\* q lies in the scope of p that an error type stands for
InScope(p, q, type) ==
    CASE type = "row" -> p[1] = q[1]
      [] type = "column" -> p[2] = q[2]
      [] type = "box" -> p[1] \div 3 = q[1] \div 3 /\ p[2] \div 3 = q[2] \div 3
      [] OTHER -> FALSE

\* the two filled cells of the board lie in one 3x3 box
PairInOneBox(b) ==
    \A p \in FilledCells(b) : \A q \in FilledCells(b) : InScope(p, q, "box")

\* C11 (as claimed): on the empty board with the same digit in two cells of
\* one row, validateBoard returns exactly two errors, one for each of the two
\* cells, both of type 'row'.
C11_RowPairGivesTwoRowErrors ==
    (Validated /\ input \in RowPairBoards) =>
        /\ Len(ret) = 2
        /\ \A k \in 1..Len(ret) : ret[k].type = "row"
        /\ {<<ret[k].row, ret[k].col>> : k \in 1..Len(ret)} = FilledCells(input)

\* C11 (amended): on such a board validateBoard returns one 'row' error for
\* each of the two cells and no 'column' error; when the two cells lie in the
\* same 3x3 box it returns one 'box' error for each cell as well (four errors
\* in all), and no 'box' error (two errors in all) when they do not.
C11_RowPairErrorsByBox ==
    (Validated /\ input \in RowPairBoards) =>
        /\ \A k \in 1..Len(ret) : <<ret[k].row, ret[k].col>> \in FilledCells(input)
        /\ \A p \in FilledCells(input) :
              /\ Cardinality(ErrorsAt(ret, p, "row")) = 1
              /\ Cardinality(ErrorsAt(ret, p, "column")) = 0
              /\ Cardinality(ErrorsAt(ret, p, "box")) = IF PairInOneBox(input) THEN 1 ELSE 0
        /\ Len(ret) = IF PairInOneBox(input) THEN 4 ELSE 2

\* C11 witness: the two cells lie in one box and four errors came back
C11_Witness ==
    /\ Validated /\ input \in RowPairBoards
    /\ PairInOneBox(input)
    /\ Len(ret) = 4

\* C12: validateBoard returns the empty sequence on every complete board in
\* which each row, column and box holds the digits 1..9 exactly once.
C12_SolvedBoardHasNoErrors ==
    (Validated /\ IsFull(input) /\ NoRepeat(input)) => ret = <<>>

\* C12 witness: a complete valid board other than the example's solution
\* was validated
C12_Witness ==
    /\ Validated /\ IsFull(input) /\ NoRepeat(input)
    /\ input # SolvedBoard
    /\ Len(ret) = 0

\* C17: on every board, every error validateBoard returns names a filled
\* cell (neither null nor 0) whose value occurs in another cell of the scope
\* the error's type stands for.
C17_ErrorsNameRealDuplicates ==
    Validated =>
        \A k \in 1..Len(ret) :
            LET p == <<ret[k].row, ret[k].col>>
                v == Get(input, p[1], p[2])
            IN  /\ ret[k].type \in ScopeTypes
                /\ ~IsEmptyCell(v)
                /\ \E q \in Cells : /\ q # p
                                    /\ InScope(p, q, ret[k].type)
                                    /\ Get(input, q[1], q[2]) = v

\* C17 witness: a board with errors on which two cells of one row hold 0
C17_Witness ==
    /\ Validated
    /\ Len(ret) > 0
    /\ \E p \in Cells : \E q \in Cells :
          /\ p # q /\ p[1] = q[1]
          /\ Get(input, p[1], p[2]) = 0 /\ Get(input, q[1], q[2]) = 0

\* C20 (as claimed): for every board and every filled cell, validateBoard
\* returns at most one error of each type ('row', 'column', 'box') for the
\* cell, however many duplicates of the cell's value the scope holds.
C20_AtMostOneErrorPerScope ==
    Validated =>
        \A p \in FilledCells(input) : \A type \in ScopeTypes :
            Cardinality(ErrorsAt(ret, p, type)) <= 1

(***************************************************************************)
(* solveSudokuInstant run again: on the board a successful solve has left,  *)
(* and on complete valid boards.                                            *)
(***************************************************************************)
SolvedResults ==
    {solveSudokuInstant(b).board : b \in {c \in InputBoards : solveSudokuInstant(c).ok}}

ResolveInit ==
    /\ mode = "instant"
    /\ input \in SolvedResults \cup SolvedBoards
    /\ board = input
    /\ stack = <<>>
    /\ pc = "call"
    /\ ret = FALSE
    /\ steps = <<>>
    /\ NoGenerator
    /\ NoUI

\* on a board with no empty cell the call returns from its entry; a call that
\* did reach its loop would stop the run at pc = "try"
ResolveNext == SolveCall \/ SolveReturn

ResolveSpec == ResolveInit /\ [][ResolveNext]_vars

\* C13: solveSudokuInstant on a complete valid board, and on the board a
\* successful solve has left, never enters its loop, writes no cell, and
\* returns true.
C13_SolvedBoardIsLeftAlone ==
    /\ pc \in {"call", "ret", "done"}
    /\ stack = <<>>
    /\ board = input
    /\ pc \in {"ret", "done"} => ret = TRUE

\* C13 witness: the second run has returned true on a valid board that a
\* solve has left (it is not one of the complete boards given directly)
C13_Witness ==
    /\ InstantDone /\ ret = TRUE
    /\ input \notin SolvedBoards
    /\ NoRepeat(input)
    /\ board = input

(***************************************************************************)
(* Which completion the solver leaves, and what the traced solver records   *)
(***************************************************************************)
\* the board read in row-major order
Flat(b) == [k \in 1..81 |-> b[((k - 1) \div 9) + 1][((k - 1) % 9) + 1]]

\* a comes before b in lexicographic order of the row-major reading
LexLess(a, b) ==
    \E k \in 1..81 : /\ Flat(a)[k] < Flat(b)[k]
                     /\ \A j \in 1..(k - 1) : Flat(a)[j] = Flat(b)[j]

\* C18: when the input has several completions, solveSudokuInstant returns
\* true and leaves the completion that comes first in lexicographic order of
\* the row-major reading.
C18_LeavesTheFirstCompletion ==
    (InstantDone /\ Cardinality(Completions(input)) >= 2) =>
        /\ ret = TRUE
        /\ board \in Completions(input)
        /\ \A c \in Completions(input) : c = board \/ LexLess(board, c)

\* C18 witness: a solve has ended on a board with two completions or more
C18_Witness ==
    /\ InstantDone /\ ret = TRUE
    /\ Cardinality(Completions(input)) >= 2
    /\ board # input

\* C19: every step of the traced solver that writes the board writes one
\* cell and appends exactly one record, holding that cell's coordinates and
\* the board as the write left it; the records already made stay as they
\* are, and a step that writes nothing records nothing.
C19_OneRecordPerWrite ==
    [][mode = "traced" =>
          IF board' # board
          THEN \E p \in Cells :
                  /\ Get(board', p[1], p[2]) # Get(board, p[1], p[2])
                  /\ \A q \in Cells \ {p} : Get(board', q[1], q[2]) = Get(board, q[1], q[2])
                  /\ steps' = Append(steps, [board |-> board', row |-> p[1], col |-> p[2]])
          ELSE steps' = steps]_vars

\* C19 witness: a traced search has ended after recording placements and
\* removals, the last record taken after a removal had been recorded
C19_Witness ==
    /\ TracedDone
    /\ Len(steps) >= 3
    /\ \E k \in 1..(Len(steps) - 1) :
          /\ Get(steps[k].board, steps[k].row, steps[k].col) = Null
          /\ IsDigit(Get(steps[k + 1].board, steps[k + 1].row, steps[k + 1].col))

(***************************************************************************)
(* solveSudokuInstant on the bundled example puzzle                         *)
(***************************************************************************)
examplePuzzle ==
    << <<5, 3, Null, Null, 7, Null, Null, Null, Null>>,
       <<6, Null, Null, 1, 9, 5, Null, Null, Null>>,
       <<Null, 9, 8, Null, Null, Null, Null, 6, Null>>,
       <<8, Null, Null, Null, 6, Null, Null, Null, 3>>,
       <<4, Null, Null, 8, Null, 3, Null, Null, 1>>,
       <<7, Null, Null, Null, 2, Null, Null, Null, 6>>,
       <<Null, 6, Null, Null, Null, Null, 2, 8, Null>>,
       <<Null, Null, Null, 4, 1, 9, Null, Null, 5>>,
       <<Null, Null, Null, Null, 8, Null, Null, 7, 9>> >>

ExampleInit ==
    /\ mode = "instant"
    /\ input = examplePuzzle
    /\ board = input
    /\ stack = <<>>
    /\ pc = "call"
    /\ ret = FALSE
    /\ steps = <<>>
    /\ NoGenerator
    /\ NoUI

ExampleSpec == ExampleInit /\ [][SolveNext]_vars

\* C15: run on the bundled example puzzle (first row 5,3,_,_,7,_,_,_,_),
\* solveSudokuInstant returns true and the first row of the board it leaves
\* is 5,3,4,6,7,8,9,1,2.
C15_ExamplePuzzleIsSolved ==
    /\ input[1] = <<5, 3, Null, Null, 7, Null, Null, Null, Null>>
    /\ InstantDone => /\ ret = TRUE
                      /\ board[1] = <<5, 3, 4, 6, 7, 8, 9, 1, 2>>

\* C15 witness: the search on the example puzzle has ended, with every cell
\* filled and the clues in place
C15_Witness ==
    /\ InstantDone
    /\ input = examplePuzzle
    /\ IsCompletionOf(board, examplePuzzle)

(***************************************************************************)
(* solveSudokuInstant on boards with a cell value outside 0..9: a board of  *)
(* the solver's input family with one of the cells BadCells set to 10 or    *)
(* to -1.  The code has no check of the values: to findEmpty and isValid    *)
(* such a value is a filled cell that equals no digit.                      *)
(***************************************************************************)
BadCells == {<<1, 1>>, <<8, 8>>}

BadValues == {10, -1}

OutOfRangeBoards ==
    {SetCell(b, t[1][1], t[1][2], t[2]) : b \in InputBoards, t \in BadCells \X BadValues}

HasOutOfRange(b) ==
    \E p \in Cells : LET v == Get(b, p[1], p[2]) IN ~IsDigit(v) /\ ~IsEmptyCell(v)

RangeInit ==
    /\ mode = "instant"
    /\ input \in OutOfRangeBoards
    /\ board = input
    /\ stack = <<>>
    /\ pc = "call"
    /\ ret = FALSE
    /\ steps = <<>>
    /\ NoGenerator
    /\ NoUI

RangeSpec == RangeInit /\ [][SolveNext]_vars

\* C14 (as claimed): given a board with a cell value out of range,
\* solveSudokuInstant rejects it at once: it never enters its search loop,
\* writes no cell, and does not return true or false as for a normal puzzle.
C14_OutOfRangeIsRejected ==
    (mode = "instant" /\ HasOutOfRange(input)) =>
        /\ pc # "try"
        /\ board = input
        /\ ~(pc = "done" /\ ret \in BOOLEAN)

(***************************************************************************)
(* The clue counts generateSudoku documents for its difficulties            *)
(***************************************************************************)
\* C16 (as claimed): the puzzle generateSudoku returns has 40 to 45 clues
\* for easy, 32 to 38 for medium and 25 to 30 for hard.
C16_ClueCountInDocumentedRange ==
    GenDone =>
        /\ difficulty = "easy" => ClueCount(board) \in 40..45
        /\ difficulty = "medium" => ClueCount(board) \in 32..38
        /\ difficulty = "hard" => ClueCount(board) \in 25..30

(***************************************************************************)
(* Properties of countSolutions, of the dig phase and of the fill phase     *)
(***************************************************************************)
\* countSolutions(testBoard) has returned to removeNumbers
CountReturned == mode = "generate" /\ pc = "countRet" /\ stack = <<>>

Min(a, b) == IF a <= b THEN a ELSE b

\* C21 (as claimed): countSolutions with the default limit returns min(n, 2),
\* n the number of completions of the board, so its result is 0, 1 or 2.
C21_CountIsCappedAtTwo ==
    CountReturned =>
        /\ ret \in {0, 1, 2}
        /\ ret = Min(Cardinality(Completions(testBoard)), 2)

\* the cells removeNumbers has visited before the current one
VisitedBefore == {shuffledCells[k] : k \in 1..(idx - 1)}

\* one step of removeNumbers' loop does what the claim says of it
DigStepAsClaimed ==
    /\ (pc = "dig" /\ pc' = "count") =>
           LET cell == shuffledCells[idx]
           IN  /\ cell \notin VisitedBefore
               /\ IsDigit(Get(board, cell[1], cell[2]))
               /\ board' = SetCell(board, cell[1], cell[2], Null)
               /\ removed' = removed
    /\ (pc = "count" \/ (pc = "countRet" /\ stack # <<>>)) =>
           /\ board' = board
           /\ removed' = removed
    /\ (CountReturned /\ pc' = "dig") =>
           LET cell == shuffledCells[idx]
           IN  IF Cardinality(Completions(board)) = 1
               THEN /\ board' = board
                    /\ removed' = removed + 1
               ELSE /\ board' = SetCell(board, cell[1], cell[2],
                                        Get(filled, cell[1], cell[2]))
                    /\ removed' = removed

\* C22: in the dig phase each cell is tentatively cleared at most once; it
\* stays cleared and the counter grows by one exactly when the board after the
\* clearing has one solution, otherwise the digit is put back and the counter
\* is unchanged.
C22_ClearedOnceKeptIffUnique == [][DigStepAsClaimed]_vars

\* the loop has kept some cells cleared and has put some digits back
C22_Witness ==
    /\ mode = "generate"
    /\ pc = "dig"
    /\ removed > 0
    /\ idx - 1 > removed


\* removeNumbers is running or has returned the puzzle
Digging == mode = "generate" /\ pc \in {"shuffle", "dig", "count", "countRet", "done"}

\* the rows, the columns and the boxes
Units ==
    {{<<r, c>> : c \in Idx} : r \in Idx}
    \cup {{<<r, c>> : r \in Idx} : c \in Idx}
    \cup {{<<3 * i + r, 3 * j + c>> : r \in 0..2, c \in 0..2} : i \in 0..2, j \in 0..2}

\* b is complete and no digit is repeated in a row, a column or a box
EveryUnitHasEveryDigit(b) ==
    \A u \in Units : {Get(b, p[1], p[2]) : p \in u} = Digits

\* C26 (as claimed): at every point of the dig phase and in the returned
\* puzzle, every filled cell holds the digit the fill placed there, and the
\* filled board is a valid completion of the puzzle, hence its unique
\* solution: also while a cell is cleared for the test by countSolutions.
C26_FilledBoardIsTheUniqueSolution ==
    Digging =>
        /\ \A p \in Cells :
               Get(board, p[1], p[2]) # Null =>
                   Get(board, p[1], p[2]) = Get(filled, p[1], p[2])
        /\ EveryUnitHasEveryDigit(filled)
        /\ Completions(board) = {filled}

\* C26 (amended): at every point of the dig phase and in the returned puzzle,
\* every filled cell holds the digit the fill placed there, and the filled
\* board is a valid completion of the puzzle; at the head of each iteration
\* of removeNumbers' loop, and in the returned puzzle, it is the only one.
C26_PuzzleStaysInsideFilledBoard ==
    Digging =>
        /\ \A p \in Cells :
               Get(board, p[1], p[2]) # Null =>
                   Get(board, p[1], p[2]) = Get(filled, p[1], p[2])
        /\ EveryUnitHasEveryDigit(filled)
        /\ pc \in {"dig", "done"} => Completions(board) = {filled}

\* a returned puzzle with cleared cells and with digits that were put back
C26_Witness ==
    /\ GenDone
    /\ removed > 0
    /\ idx - 1 > removed
    /\ board # filled

(***************************************************************************)
(* fillBoard alone, as generateSudoku calls it: on the empty board, with    *)
(* Math.random's values taken from one of NFillSeeds streams.  fillBoard is *)
(* synchronous code, so a step that can be taken is taken: weak fairness of *)
(* the fill's steps.                                                        *)
(***************************************************************************)
NFillSeeds == 12

FillSeeds == {(1143 + 1021 * i) % 65536 : i \in 0..(NFillSeeds - 1)}

FillInit ==
    /\ mode = "fill"
    /\ difficulty = "medium"
    /\ rng \in FillSeeds
    /\ input = createEmptyBoard
    /\ board = createEmptyBoard
    /\ stack = <<>>
    /\ pc = "fillCall"
    /\ ret = FALSE
    /\ steps = <<>>
    /\ filled = <<>>
    /\ testBoard = <<>>
    /\ backup = Null
    /\ cellsToRemove = 0
    /\ shuffledCells = <<>>
    /\ idx = 0
    /\ removed = 0
    /\ NoUI

FillNext == FillCall \/ FillTry \/ FillReturn

FillSpec == FillInit /\ [][FillNext]_vars /\ WF_vars(FillNext)

\* the outermost call of fillBoard has returned
FillReturned == pc = "fillRet" /\ stack = <<>>

\* C23: started on the empty board, fillBoard terminates, returns true and
\* leaves a complete board with no digit repeated in a row, column or box.
C23_FillAlwaysSucceeds ==
    /\ [](FillReturned => (ret = TRUE /\ IsFull(board) /\ NoRepeat(board)))
    /\ <>FillReturned

\* fillBoard has returned true on a board it has filled
C23_Witness ==
    /\ mode = "fill"
    /\ FillReturned
    /\ ret = TRUE
    /\ IsFull(board)

\* the board the i-th record's snapshot is compared with
SnapshotBefore(i) == IF i = 1 THEN input ELSE steps[i - 1].board

\* snapshot cur differs from prev in the cell (row, col) only, which goes from
\* empty (null or 0) to a digit or from a digit to empty
OneCellToggled(prev, cur, row, col) ==
    /\ \A i \in 1..9 : i # row + 1 => cur[i] = prev[i]
    /\ \A j \in 1..9 : j # col + 1 => cur[row + 1][j] = prev[row + 1][j]
    /\ \/ Get(prev, row, col) \in {Null, 0} /\ IsDigit(Get(cur, row, col))
       \/ IsDigit(Get(prev, row, col)) /\ Get(cur, row, col) \in {Null, 0}

\* C25: in the step trace every record's snapshot differs from the snapshot
\* before it (the original board for the first record) in exactly one cell,
\* the record's own, which changes from empty to a digit or from a digit to
\* empty.
C25_SnapshotsDifferInTheRecordedCell ==
    mode = "traced" =>
        \A i \in 1..Len(steps) :
            OneCellToggled(SnapshotBefore(i), steps[i].board, steps[i].row, steps[i].col)

\* a finished trace with a removal in it, begun on a board with a 0 cell
C25_Witness ==
    /\ TracedDone
    /\ Len(steps) >= 3
    /\ \E i \in 1..Len(steps) : Get(steps[i].board, steps[i].row, steps[i].col) = Null
    /\ \E p \in Cells : Get(input, p[1], p[2]) = 0 /\ IsDigit(Get(board, p[1], p[2]))

\* validateBoard's result has an error that names cell p
HasErrorAt(errs, p) == \E k \in 1..Len(errs) : errs[k].row = p[1] /\ errs[k].col = p[2]

\* C27: validateBoard and isValid agree: for every board and every filled
\* cell (r, c) holding digit d, validateBoard reports an error at (r, c)
\* exactly when isValid(board with (r, c) emptied, r, c, d) is false.
C27_ValidateBoardAgreesWithIsValid ==
    Validated =>
        \A p \in FilledCells(input) :
            HasErrorAt(ret, p) <=>
                ~isValid(SetCell(input, p[1], p[2], Null), p[1], p[2],
                         Get(input, p[1], p[2]))

\* a validated board with a filled cell that has an error and one that has none
C27_Witness ==
    /\ Validated
    /\ \E p \in FilledCells(input) : HasErrorAt(ret, p)
    /\ \E p \in FilledCells(input) :
          /\ ~HasErrorAt(ret, p)
          /\ isValid(SetCell(input, p[1], p[2], Null), p[1], p[2], Get(input, p[1], p[2]))

(***************************************************************************)
(* The page, in its two versions: Index with step mode and image upload     *)
(* (mode "page"), whose handleSolve plays a trace on an interval timer, and *)
(* the older Index (mode "callbackPage"), whose handleSolve awaits          *)
(* solveSudoku and draws in its onStep callback.  React state, and one      *)
(* action for each handler and for each stretch of an asynchronous handler  *)
(* between two waits.  The page starts as its mount effect leaves it, with  *)
(* the example puzzle loaded.  Puzzles come in from generateSudoku and from *)
(* the image extraction; the cells UIEditCells take the user's edits.       *)
(* Solves are run for boards with at most MaxOpenCells empty cells.  The    *)
(* values Math.random returns to a call of generateSudoku are an input of   *)
(* handleGenerate: at each press, those of any of NPageSeeds streams.       *)
(***************************************************************************)
MaxOpenCells == 4

\* the trace of solveSudoku on a board: [ok, board, steps]
RECURSIVE TraceCall(_, _), TraceTryFrom(_, _, _, _, _)
TraceTryFrom(b, recs, row, col, from) ==
    LET num == NextValid(b, row, col, from)
    IN  IF num > 9 THEN [ok |-> FALSE, board |-> b, steps |-> recs]
        ELSE LET placed == SetCell(b, row, col, num)
                 r == TraceCall(placed, onStep(recs, b, placed, row, col))
             IN  IF r.ok THEN r
                 ELSE LET cleared == SetCell(r.board, row, col, Null)
                      IN  TraceTryFrom(cleared,
                                       onStep(r.steps, r.board, cleared, row, col),
                                       row, col, num + 1)

TraceCall(b, recs) ==
    LET empty == findEmpty(b)
    IN  IF empty = <<>> THEN [ok |-> TRUE, board |-> b, steps |-> recs]
        ELSE TraceTryFrom(b, recs, empty[1], empty[2], 1)

\* getSolvingSteps(board): the records of the traced solve, none when the
\* solve fails
getSolvingStepsOf(b) ==
    LET r == TraceCall(b, <<>>) IN IF r.ok THEN r.steps ELSE <<>>

\* solveSudokuSAT(boardCopy): whether a solution was found, and the copy
solveSudokuSAT(b) == solveSudokuInstant(b)

\* the boards a trace is computed for
WithinTraceBound(b) ==
    Cardinality({p \in Cells : IsEmptyCell(Get(b, p[1], p[2]))}) <= MaxOpenCells

(***************************************************************************)
(* generateSudoku as the page calls it: the whole run, from the value s     *)
(* Math.random returned last to the puzzle returned and the last value the *)
(* run has drawn.                                                          *)
(* The run is the generator's steps (FillCall .. RemoveEnd) on a record of  *)
(* the generator's locals, repeated until generateSudoku returns.           *)
(***************************************************************************)
MaxGenSteps == 65536

\* generateSudoku's entry: createEmptyBoard, then fillBoard(board)
GenStart(s) ==
    [pc |-> "fillCall", board |-> createEmptyBoard, stack |-> <<>>, ret |-> FALSE,
     rng |-> s, testBoard |-> <<>>, backup |-> Null, shuffledCells |-> <<>>,
     idx |-> 0, removed |-> 0]

\* entry of fillBoard
FillCallStep(g) ==
    LET empty == FirstNull(g.board)
    IN  IF empty = <<>>
        THEN [g EXCEPT !.ret = TRUE, !.pc = "fillRet"]
        ELSE LET values == StreamValues(g.rng, 8)
             IN  [g EXCEPT !.stack = Append(g.stack,
                                            [row |-> empty[1], col |-> empty[2],
                                             numbers |-> shuffle(<<1, 2, 3, 4, 5, 6, 7, 8, 9>>,
                                                                 values),
                                             k |-> 1]),
                           !.rng = values[8],
                           !.pc = "fillTry"]

\* fillBoard's for loop up to its next placement, or to its end
FillTryStep(g) ==
    LET f == g.stack[Len(g.stack)]
        k == NextValidAt(g.board, f.row, f.col, f.numbers, f.k)
    IN  IF k > Len(f.numbers)
        THEN [g EXCEPT !.stack = Pop(g.stack), !.ret = FALSE, !.pc = "fillRet"]
        ELSE [g EXCEPT !.board = SetCell(g.board, f.row, f.col, f.numbers[k]),
                       !.stack = [g.stack EXCEPT ![Len(g.stack)].k = k],
                       !.pc = "fillCall"]

\* a fillBoard call has returned: to its caller's loop, or, the outermost
\* one, to generateSudoku, which calls removeNumbers: removed = 0, and
\* shuffle on the 81 cells starts with i (held in idx) at length - 1
FillReturnStep(g) ==
    IF g.stack = <<>>
    THEN [g EXCEPT !.shuffledCells = AllCells, !.idx = Len(AllCells) - 1,
                   !.removed = 0, !.pc = "shuffle"]
    ELSE LET f == g.stack[Len(g.stack)]
         IN  IF g.ret
             THEN [g EXCEPT !.stack = Pop(g.stack)]
             ELSE [g EXCEPT !.board = SetCell(g.board, f.row, f.col, Null),
                            !.stack = [g.stack EXCEPT ![Len(g.stack)].k = f.k + 1],
                            !.pc = "fillTry"]

\* one iteration of shuffle's loop on the 81 cells, or the loop's end, where
\* removeNumbers' for loop starts at the first cell
ShuffleStepOf(g) ==
    IF g.idx > 0
    THEN LET s1 == StreamNext(g.rng)
             j  == RandBelow(s1, g.idx + 1)
         IN  [g EXCEPT !.shuffledCells = Swap(g.shuffledCells, g.idx + 1, j + 1),
                       !.rng = s1,
                       !.idx = g.idx - 1]
    ELSE [g EXCEPT !.idx = 1, !.pc = "dig"]

\* removeNumbers' loop: its end, or the next cell up to the call of
\* countSolutions
RemoveStepOf(g, target) ==
    IF g.idx > Len(g.shuffledCells) \/ BreakLoop(g.removed, target)
    THEN [g EXCEPT !.pc = "done"]
    ELSE LET row == g.shuffledCells[g.idx][1]
             col == g.shuffledCells[g.idx][2]
             cleared == SetCell(g.board, row, col, Null)
         IN  [g EXCEPT !.backup = Get(g.board, row, col),
                       !.board = cleared,
                       !.testBoard = cleared,
                       !.pc = "count"]

\* one entry of countSolutions on the test board
CountStepOf(g) ==
    LET empty == FirstNull(g.testBoard)
        r == IF empty = <<>>
             THEN CountUnwind(g.testBoard, g.stack, 1)
             ELSE CountLoop(g.testBoard,
                            Append(g.stack, [row |-> empty[1], col |-> empty[2],
                                             num |-> 1, count |-> 0]))
    IN  [g EXCEPT !.testBoard = r.board, !.stack = r.stack, !.ret = r.ret,
                  !.pc = IF r.returned THEN "countRet" ELSE "count"]

\* countSolutions has returned to removeNumbers
RemoveDecideOf(g) ==
    LET row == g.shuffledCells[g.idx][1]
        col == g.shuffledCells[g.idx][2]
    IN  IF KeepsCleared(g.ret)
        THEN [g EXCEPT !.removed = g.removed + 1, !.idx = g.idx + 1, !.pc = "dig"]
        ELSE [g EXCEPT !.board = PutBack(g.board, row, col, g.backup),
                       !.idx = g.idx + 1, !.pc = "dig"]

GenStep(g, target) ==
    CASE g.pc = "fillCall" -> FillCallStep(g)
      [] g.pc = "fillTry"  -> FillTryStep(g)
      [] g.pc = "fillRet"  -> FillReturnStep(g)
      [] g.pc = "shuffle"  -> ShuffleStepOf(g)
      [] g.pc = "dig"      -> RemoveStepOf(g, target)
      [] g.pc = "count"    -> CountStepOf(g)
      [] g.pc = "countRet" -> RemoveDecideOf(g)
      [] OTHER             -> g

\* at most n steps from g, stopping where generateSudoku returns
RECURSIVE GenRun(_, _, _)
GenRun(g, target, n) ==
    IF g.pc = "done" THEN g
    ELSE IF n <= 1 THEN GenStep(g, target)
    ELSE GenRun(GenRun(g, target, n \div 2), target, n - (n \div 2))

\* generateSudoku(difficulty) when Math.random's values are those of the
\* stream after s
generateSudoku(d, s) ==
    LET g == GenRun(GenStart(s), CellsToRemoveOf(d), MaxGenSteps)
    IN  [done |-> g.pc = "done", board |-> g.board, rng |-> g.rng]

NPageSeeds == 2

\* where Math.random can stand when a Generate button is pressed: the runtime
\* seeds it and any code of the page may call it, so a press finds it at any
\* of the streams of the bound
PageSeeds == {SeedList[i] : i \in 1..NPageSeeds}

\* <<difficulty, s, generateSudoku(difficulty, s)>> for every difficulty and
\* every place s Math.random can stand at when a Generate button is pressed
GeneratedFrom(S) == {<<d, s, generateSudoku(d, s)>> : d \in Difficulties, s \in S}

\* generateSudoku(d) with Math.random standing at s
GeneratedBy(d, s) == {t[3] : t \in {u \in generated : u[1] = d /\ u[2] = s /\ u[3].done}}

\* boards an extraction delivers: at least 17 digits, no validation error
ExtractedBoards ==
    { Patch(SolvedBoard, <<0, 3>> :> Null @@ <<0, 4>> :> Null
                         @@ <<3, 3>> :> Null @@ <<3, 4>> :> 7),
      Patch(SolvedBoard, <<8, 8>> :> Null) }

\* boards typed in on the cleared board of the older Index: the extracted
\* ones, and one with no solution where the search places a digit first
TypedBoards ==
    ExtractedBoards
    \cup { Patch(SolvedBoard, <<0, 3>> :> Null @@ <<0, 4>> :> Null @@ <<3, 4>> :> 7) }

UIEditCells == {<<0, 3>>, <<8, 8>>}

UIEditValues == {Null, 6, 7}

\* (a variant that marks every cell)
FixedCellsOfAll(puzzle) == Cells

\* loadPuzzle: if (cell !== null) fixed.add(`${i}-${j}`)
FixedCellsOf(puzzle) == {p \in Cells : Get(puzzle, p[1], p[2]) # Null}

\* ControlPanel: each button but the theme toggle has
\* disabled={isSolving || disabled}, and Index passes disabled={isStepMode}
\* (the older Index passes none, and has no step mode)
ControlPanelEnabled == ~(isSolving \/ isStepMode)

\* an event handler runs when no code is running: the page is idle, or the
\* older handleSolve waits for one of solveSudoku's timers
HandlerMayRun == pc \in {"idle", "awaitCall", "awaitTry"}

\* SudokuGrid: isFixed = fixedCells.has(cellKey), and SudokuCell's input has
\* disabled={isFixed}: a cell marked as a clue takes no edit
Editable(p) == p \notin fixedCells

\* loadPuzzle(puzzle)
loadPuzzle(puzzle) ==
    /\ board' = puzzle
    /\ fixedCells' = FixedCellsOf(puzzle)
    /\ solvingCell' = <<>>
    /\ input' = puzzle

\* the page after its mount effect: loadPuzzle(examplePuzzle); the older
\* Index also after Clear and a board typed in
UIInit ==
    /\ generated = GeneratedFrom(PageSeeds)
    /\ mode \in {"page", "callbackPage"}
    /\ input = examplePuzzle
    /\ \/ /\ board = examplePuzzle
          /\ fixedCells = FixedCellsOf(examplePuzzle)
       \/ /\ mode = "callbackPage"
          /\ board \in TypedBoards
          /\ fixedCells = {}
    /\ stack = <<>>
    /\ pc = "idle"
    /\ ret = FALSE
    /\ steps = <<>>
    /\ difficulty = "none"
    /\ rng = 0
    /\ filled = <<>>
    /\ testBoard = <<>>
    /\ backup = Null
    /\ cellsToRemove = 0
    /\ shuffledCells = <<>>
    /\ idx = 0
    /\ removed = 0
    /\ boardCopy = <<>>
    /\ isSolving = FALSE
    /\ solvingCell = <<>>
    /\ solvingSteps = <<>>
    /\ currentStepIndex = 0
    /\ isStepMode = FALSE
    /\ interval = FALSE
    /\ isProcessing = FALSE

\* what only handleGenerate and the older handleSolve write, and what no
\* handler writes
UIFrame == UNCHANGED <<mode, stack, ret, difficulty, rng, filled, testBoard,
                       backup, cellsToRemove, shuffledCells, removed, boardCopy,
                       generated>>

handleCellChange ==
    /\ HandlerMayRun
    /\ ~isSolving
    /\ \E p \in UIEditCells, value \in UIEditValues :
          /\ Editable(p)
          /\ board' = SetCell(board, p[1], p[2], value)
    /\ UIFrame
    /\ UNCHANGED <<input, pc, steps, idx, fixedCells, isSolving, solvingCell,
                   solvingSteps, currentStepIndex, isStepMode, interval, isProcessing>>

\* handleSolve up to the test of the trace: setIsSolving(true), getSolvingSteps
handleSolve ==
    /\ mode = "page"
    /\ HandlerMayRun
    /\ ControlPanelEnabled
    /\ ~isSolving
    /\ WithinTraceBound(board)
    /\ isSolving' = TRUE
    /\ steps' = getSolvingStepsOf(board)
    /\ pc' = "handleSolve"
    /\ UIFrame
    /\ UNCHANGED <<input, board, idx, fixedCells, solvingCell, solvingSteps,
                   currentStepIndex, isStepMode, interval, isProcessing>>

\* handleSolve with an empty trace: the toast, setIsSolving(false), return
handleSolveNoSolution ==
    /\ mode = "page"
    /\ pc = "handleSolve"
    /\ Len(steps) = 0
    /\ isSolving' = FALSE
    /\ pc' = "idle"
    /\ UIFrame
    /\ UNCHANGED <<input, board, steps, idx, fixedCells, solvingCell, solvingSteps,
                   currentStepIndex, isStepMode, interval, isProcessing>>

\* handleSolve with a trace: idx = 0 and setInterval
handleSolveSetInterval ==
    /\ mode = "page"
    /\ pc = "handleSolve"
    /\ Len(steps) # 0
    /\ idx' = 0
    /\ interval' = TRUE
    /\ pc' = "idle"
    /\ UIFrame
    /\ UNCHANGED <<input, board, steps, fixedCells, isSolving, solvingCell,
                   solvingSteps, currentStepIndex, isStepMode, isProcessing>>

\* one call of the interval's callback
IntervalTick ==
    /\ mode = "page"
    /\ HandlerMayRun
    /\ interval
    /\ board' = steps[idx + 1].board
    /\ IF idx + 1 >= Len(steps)
       THEN /\ interval' = FALSE
            /\ solvingCell' = <<>>
            /\ isSolving' = FALSE
            /\ steps' = <<>>
            /\ idx' = 0
       ELSE /\ solvingCell' = <<steps[idx + 1].row, steps[idx + 1].col>>
            /\ idx' = idx + 1
            /\ UNCHANGED <<interval, isSolving, steps>>
    /\ UIFrame
    /\ UNCHANGED <<input, pc, fixedCells, solvingSteps, currentStepIndex,
                   isStepMode, isProcessing>>

handleSolveInstant ==
    /\ mode = "page"
    /\ HandlerMayRun
    /\ ControlPanelEnabled
    /\ ~isSolving
    /\ WithinTraceBound(board)
    /\ \E r \in {solveSudokuSAT(board)} :
          board' = IF r.ok THEN r.board ELSE board
    /\ UIFrame
    /\ UNCHANGED <<input, pc, steps, idx, fixedCells, isSolving, solvingCell,
                   solvingSteps, currentStepIndex, isStepMode, interval, isProcessing>>

handleClear ==
    /\ HandlerMayRun
    /\ ControlPanelEnabled
    /\ board' = createEmptyBoard
    /\ fixedCells' = {}
    /\ solvingCell' = <<>>
    /\ UIFrame
    /\ UNCHANGED <<input, pc, steps, idx, isSolving, solvingSteps,
                   currentStepIndex, isStepMode, interval, isProcessing>>

\* handleGenerate(difficulty): loadPuzzle(generateSudoku(difficulty)), for
\* any of the streams Math.random's values can come from.  Where Math.random
\* stands is the runtime's state, not the page's: the page keeps no rng
handleGenerate ==
    /\ HandlerMayRun
    /\ ControlPanelEnabled
    /\ \E d \in Difficulties, s \in PageSeeds : \E newPuzzle \in GeneratedBy(d, s) :
          loadPuzzle(newPuzzle.board)
    /\ UNCHANGED <<mode, rng, stack, pc, ret, steps, difficulty, filled, testBoard,
                   backup, cellsToRemove, shuffledCells, idx, removed, isSolving,
                   solvingSteps, currentStepIndex, isStepMode, interval,
                   isProcessing, boardCopy, generated>>

\* ImageUpload: a file is chosen and extractSudokuFromImage starts
handleFileChange ==
    /\ mode = "page"
    /\ HandlerMayRun
    /\ ~(isSolving \/ isStepMode)
    /\ ~isProcessing
    /\ isProcessing' = TRUE
    /\ UIFrame
    /\ UNCHANGED <<input, board, pc, steps, idx, fixedCells, isSolving, solvingCell,
                   solvingSteps, currentStepIndex, isStepMode, interval>>

\* the extraction ends with a board: onBoardExtracted(board), which is
\* handleImageUpload, which is loadPuzzle
handleImageUpload ==
    /\ mode = "page"
    /\ HandlerMayRun
    /\ isProcessing
    /\ \E extractedBoard \in ExtractedBoards : loadPuzzle(extractedBoard)
    /\ isProcessing' = FALSE
    /\ UIFrame
    /\ UNCHANGED <<pc, steps, idx, isSolving, solvingSteps, currentStepIndex,
                   isStepMode, interval>>

\* the extraction ends without a board: too few digits, validation errors,
\* or an error of the OCR
ExtractionRejected ==
    /\ mode = "page"
    /\ HandlerMayRun
    /\ isProcessing
    /\ isProcessing' = FALSE
    /\ UIFrame
    /\ UNCHANGED <<input, board, pc, steps, idx, fixedCells, isSolving, solvingCell,
                   solvingSteps, currentStepIndex, isStepMode, interval>>

handleStepByStep ==
    /\ mode = "page"
    /\ HandlerMayRun
    /\ ControlPanelEnabled
    /\ WithinTraceBound(board)
    /\ \E s \in {getSolvingStepsOf(board)} :
          IF Len(s) = 0
          THEN UNCHANGED <<solvingSteps, currentStepIndex, isStepMode>>
          ELSE /\ solvingSteps' = s
               /\ currentStepIndex' = 0
               /\ isStepMode' = TRUE
    /\ UIFrame
    /\ UNCHANGED <<input, board, pc, steps, idx, fixedCells, isSolving, solvingCell,
                   interval, isProcessing>>

\* StepController is shown in step mode; its Next button is disabled when
\* currentStep >= totalSteps
handleNextStep ==
    /\ mode = "page"
    /\ HandlerMayRun
    /\ isStepMode
    /\ currentStepIndex < Len(solvingSteps)
    /\ board' = solvingSteps[currentStepIndex + 1].board
    /\ solvingCell' = <<solvingSteps[currentStepIndex + 1].row,
                        solvingSteps[currentStepIndex + 1].col>>
    /\ currentStepIndex' = currentStepIndex + 1
    /\ isStepMode' = IF currentStepIndex + 1 >= Len(solvingSteps) THEN FALSE
                     ELSE isStepMode
    /\ UIFrame
    /\ UNCHANGED <<input, pc, steps, idx, fixedCells, isSolving, solvingSteps,
                   interval, isProcessing>>

\* the Previous button is disabled when currentStep === 0
handlePrevStep ==
    /\ mode = "page"
    /\ HandlerMayRun
    /\ isStepMode
    /\ currentStepIndex > 0
    /\ board' = solvingSteps[currentStepIndex].board
    /\ solvingCell' = <<solvingSteps[currentStepIndex].row,
                        solvingSteps[currentStepIndex].col>>
    /\ currentStepIndex' = currentStepIndex - 1
    /\ UIFrame
    /\ UNCHANGED <<input, pc, steps, idx, fixedCells, isSolving, solvingSteps,
                   isStepMode, interval, isProcessing>>

handleResetSteps ==
    /\ mode = "page"
    /\ HandlerMayRun
    /\ isStepMode
    /\ isStepMode' = FALSE
    /\ solvingSteps' = <<>>
    /\ currentStepIndex' = 0
    /\ solvingCell' = <<>>
    /\ board' = [i \in 1..9 |-> [j \in 1..9 |->
                    IF <<i - 1, j - 1>> \in fixedCells THEN board[i][j] ELSE Null]]
    /\ UIFrame
    /\ UNCHANGED <<input, pc, steps, idx, fixedCells, isSolving, interval, isProcessing>>

(***************************************************************************)
(* The older Index.  handleSolve awaits solveSudoku(boardCopy, onStep);     *)
(* onStep is setBoard(newBoard), setSolvingCell({row, col}), and solveSudoku *)
(* waits for a 10 ms timer after each call of onStep.                       *)
(***************************************************************************)

\* handleSolve up to the call of solveSudoku: setIsSolving(true), the copy
handleSolveCallback ==
    /\ mode = "callbackPage"
    /\ HandlerMayRun
    /\ ControlPanelEnabled
    /\ ~isSolving
    /\ WithinTraceBound(board)
    /\ isSolving' = TRUE
    /\ boardCopy' = board
    /\ stack' = <<>>
    /\ pc' = "call"
    /\ UNCHANGED <<mode, input, board, ret, steps, fixedCells, solvingCell,
                   solvingSteps, currentStepIndex, isStepMode, interval, isProcessing,
                   generated>>
    /\ UNCHANGED genVars

\* entry of solveSudoku on the copy: findEmpty
solveSudokuCall ==
    /\ mode = "callbackPage"
    /\ pc = "call"
    /\ LET empty == findEmpty(boardCopy)
       IN  IF empty = <<>>
           THEN /\ ret' = TRUE
                /\ pc' = "ret"
                /\ UNCHANGED stack
           ELSE /\ stack' = Append(stack, [row |-> empty[1], col |-> empty[2], num |-> 1])
                /\ pc' = "try"
                /\ UNCHANGED ret
    /\ UNCHANGED <<mode, input, board, steps>>
    /\ UNCHANGED genVars
    /\ UNCHANGED uiVars

\* solveSudoku's for loop up to its end (return false), or up to the wait
\* after its next placement: the digit is written to the copy, and onStep
\* shows a snapshot of the copy and marks the cell
solveSudokuTry ==
    /\ mode = "callbackPage"
    /\ pc = "try"
    /\ LET f   == Top
           num == NextValid(boardCopy, f.row, f.col, f.num)
       IN  IF num > 9
           THEN /\ stack' = Pop(stack)
                /\ ret' = FALSE
                /\ pc' = "ret"
                /\ UNCHANGED <<board, boardCopy, solvingCell>>
           ELSE /\ boardCopy' = SetCell(boardCopy, f.row, f.col, num)
                /\ board' = boardCopy'
                /\ solvingCell' = <<f.row, f.col>>
                /\ stack' = SetTopNum(stack, num)
                /\ pc' = "awaitCall"
                /\ UNCHANGED ret
    /\ UNCHANGED <<mode, input, steps, fixedCells, isSolving, solvingSteps,
                   currentStepIndex, isStepMode, interval, isProcessing,
                   generated>>
    /\ UNCHANGED genVars

\* a recursive call of solveSudoku has returned to its caller's loop: true
\* is handed on; on false the cell is cleared in the copy, onStep shows the
\* snapshot and marks the cell, and the loop goes on after the wait
solveSudokuReturn ==
    /\ mode = "callbackPage"
    /\ pc = "ret"
    /\ stack # <<>>
    /\ IF ret
       THEN /\ stack' = Pop(stack)
            /\ pc' = "ret"
            /\ UNCHANGED <<board, boardCopy, solvingCell>>
       ELSE /\ boardCopy' = SetCell(boardCopy, Top.row, Top.col, Null)
            /\ board' = boardCopy'
            /\ solvingCell' = <<Top.row, Top.col>>
            /\ stack' = SetTopNum(stack, Top.num + 1)
            /\ pc' = "awaitTry"
    /\ UNCHANGED <<mode, input, ret, steps, fixedCells, isSolving, solvingSteps,
                   currentStepIndex, isStepMode, interval, isProcessing,
                   generated>>
    /\ UNCHANGED genVars

\* the 10 ms timer after a call of onStep fires: after a placement the
\* recursive call is entered, after a removal the loop goes on
TimerFires ==
    /\ mode = "callbackPage"
    /\ pc \in {"awaitCall", "awaitTry"}
    /\ pc' = IF pc = "awaitCall" THEN "call" ELSE "try"
    /\ UNCHANGED <<mode, input, board, stack, ret, steps>>
    /\ UNCHANGED genVars
    /\ UNCHANGED uiVars

\* solveSudoku has returned to handleSolve: if (solved) setBoard(boardCopy),
\* setSolvingCell(null); the toast; finally setIsSolving(false),
\* setSolvingCell(null)
handleSolveFinally ==
    /\ mode = "callbackPage"
    /\ pc = "ret"
    /\ stack = <<>>
    /\ board' = IF ret THEN boardCopy ELSE board
    /\ isSolving' = FALSE
    /\ solvingCell' = <<>>
    /\ pc' = "idle"
    /\ UNCHANGED <<mode, input, stack, ret, steps, fixedCells, solvingSteps,
                   currentStepIndex, isStepMode, interval, isProcessing, boardCopy,
                   generated>>
    /\ UNCHANGED genVars

\* the older handleSolveInstant: solveSudokuInstant on a copy of the board
handleSolveInstantBacktracking ==
    /\ mode = "callbackPage"
    /\ HandlerMayRun
    /\ ControlPanelEnabled
    /\ ~isSolving
    /\ WithinTraceBound(board)
    /\ \E r \in {solveSudokuInstant(board)} :
          board' = IF r.ok THEN r.board ELSE board
    /\ UIFrame
    /\ UNCHANGED <<input, pc, steps, idx, fixedCells, isSolving, solvingCell,
                   solvingSteps, currentStepIndex, isStepMode, interval, isProcessing>>

UINext ==
    \/ handleCellChange
    \/ handleSolve \/ handleSolveNoSolution \/ handleSolveSetInterval \/ IntervalTick
    \/ handleSolveInstant
    \/ handleClear \/ handleGenerate
    \/ handleFileChange \/ handleImageUpload \/ ExtractionRejected
    \/ handleStepByStep \/ handleNextStep \/ handlePrevStep \/ handleResetSteps
    \/ handleSolveCallback \/ solveSudokuCall \/ solveSudokuTry \/ solveSudokuReturn
    \/ TimerFires \/ handleSolveFinally
    \/ handleSolveInstantBacktracking

UISpec == UIInit /\ [][UINext]_vars

\* a puzzle is loaded: generated, or delivered by the image extraction
PuzzleLoaded == handleGenerate \/ handleImageUpload

\* C24: the fixed-cell set is set when a puzzle is loaded to exactly the set
\* of non-empty cells of that puzzle, and only loading a puzzle or clearing
\* the board changes it: instant solving, animated solving, step navigation,
\* step reset and cell editing leave it as it is.
C24_FixedCellsChangeOnLoadOrClear ==
    [][ /\ PuzzleLoaded =>
               fixedCells' = {p \in Cells : ~IsEmptyCell(Get(board', p[1], p[2]))}
        /\ fixedCells' # fixedCells => (PuzzleLoaded \/ handleClear)
        /\ ( handleSolveInstant \/ handleSolve \/ handleSolveNoSolution
             \/ handleSolveSetInterval \/ IntervalTick \/ handleStepByStep
             \/ handleNextStep \/ handlePrevStep \/ handleResetSteps
             \/ handleCellChange
             \/ handleSolveInstantBacktracking \/ handleSolveCallback
             \/ solveSudokuCall \/ solveSudokuTry \/ solveSudokuReturn
             \/ TimerFires \/ handleSolveFinally ) => fixedCells' = fixedCells ]_vars

\* an extracted puzzle has been solved by the animation: the board is full,
\* the fixed cells are still the puzzle's clues
C24_Witness ==
    /\ mode = "page"
    /\ input \in ExtractedBoards
    /\ ~isSolving
    /\ IsFull(board)
    /\ board # input
    /\ fixedCells = {p \in Cells : IsDigit(Get(input, p[1], p[2]))}
    /\ fixedCells # Cells

\* C28 (as claimed): in step mode, after every press of Next or Previous the
\* board is determined by the step counter alone: when the counter shows
\* k > 0 the board is the k-th snapshot of the trace, whether k was reached
\* by Next or by Previous, and the counter stays within 0..totalSteps.
C28_BoardFollowsStepCounter ==
    [][ (handleNextStep \/ handlePrevStep) =>
            /\ currentStepIndex' \in 0..Len(solvingSteps')
            /\ currentStepIndex' > 0 =>
                   board' = solvingSteps'[currentStepIndex'].board ]_vars

\* C29 (as claimed): while an animated solve is in progress (isSolving is
\* true) the board is changed only by the animation's own steps: a cell edit,
\* and the result of an image extraction started before the solve, leave the
\* board as it is until isSolving is false again.
C29_OnlyTheAnimationWritesWhileSolving ==
    [][ (isSolving /\ board' # board) =>
            (IntervalTick \/ solveSudokuTry \/ solveSudokuReturn
             \/ handleSolveFinally) ]_vars

\* The page with its scheduling: a handler that has started runs to its
\* next wait or to its end, and a running timer fires.
UILiveSpec ==
    /\ UIInit /\ [][UINext]_vars
    /\ WF_vars(handleSolveNoSolution)
    /\ WF_vars(handleSolveSetInterval)
    /\ WF_vars(IntervalTick)
    /\ WF_vars(solveSudokuCall)
    /\ WF_vars(solveSudokuTry)
    /\ WF_vars(solveSudokuReturn)
    /\ WF_vars(TimerFires)
    /\ WF_vars(handleSolveFinally)

\* C30 (as claimed): every animated solve that starts (isSolving set to true)
\* eventually ends, and it ends with isSolving false and no cell marked as
\* being solved: after the last trace step is shown, the board being the
\* final snapshot, when the board has a solution, and when it has none.
C30_AnimatedSolveEndsUnmarked ==
    /\ [][ (isSolving /\ ~isSolving') =>
               /\ solvingCell' = <<>>
               /\ (mode = "page" /\ Len(steps) # 0) =>
                      board' = steps[Len(steps)].board
               /\ (mode = "callbackPage" /\ ret = TRUE) =>
                      (board' = boardCopy /\ IsFull(board')) ]_vars
    /\ (isSolving ~> ~isSolving)

=============================================================================
